---- MODULE Spec2Model ----
(***************************************************************************)
(* Model of the test_school backend: the test session engine of            *)
(* controllers/testController.ts (startTest, submitAnswer, completeTest),  *)
(* the TestSession and User mongoose models and the user controller.       *)
(* The client's test slice (the redux reducers of the test page) is        *)
(* modelled next to it, on a variable of its own.                          *)
(*                                                                         *)
(* Every `await` on a database call is one atomic step; the synchronous    *)
(* code that follows it, up to the next await or the response, belongs to  *)
(* the same step.  Requests in flight occupy a slot of `reqs`.             *)
(***************************************************************************)
EXTENDS Integers, Sequences, FiniteSets, TLC

VARIABLES
  users,      \* User collection: userId -> document
  sessions,   \* TestSession collection in insertion order; _id = index
  now,        \* server clock (new Date()), in minutes
  ticks,      \* number of clock advances so far
  nreq,       \* number of requests received so far
  reqs,       \* request slot -> handler position and local variables
  lastResp,   \* the response sent by the last step, NoResp if it sent none
  probe,      \* inputs and result of one evaluation of a model method
  questionBank, \* Question collection: _id -> document
  strictQuery, \* mongoose's strictQuery option as the installed version defaults it
  test        \* the state of the client's test slice (store.test)

vars == <<users, sessions, now, ticks, nreq, reqs, lastResp, probe, questionBank, strictQuery, test>>

-----------------------------------------------------------------------------
(* Bounds of the model *)

MaxRequests == 3        \* requests received in one behaviour
MaxTicks == 1           \* clock advances in one behaviour
PoolSize == 2           \* active questions stored per step
MaxTimeLimit == 2       \* timeLimit of a client session, in timer ticks
MaxTimeSpent == 3       \* timeSpent of a client session, in timer ticks

(* Program constants *)

QuestionLimit == 20     \* Question.find(...).limit(20)
TimeLimit == 30         \* timeLimit: 30 (minutes)
MaxPercentage == 100    \* schema: percentage max 100

Null == "null"
Users == {"u1", "u2"}
Slots == {1, 2}
Steps == {1, 2, 3}                              \* enum TestStep
Levels == {"A1", "A2", "B1", "B2", "C1", "C2"}  \* enum AssessmentLevel
Roles == {"admin", "student", "supervisor"}     \* enum UserRole
IN_PROGRESS == "in_progress"                    \* enum TestStatus
COMPLETED == "completed"
FirstNameInputs == {"Bea"}
RoleInputs == {"supervisor"}
ClockSteps == {TimeLimit, TimeLimit + 1}
SelectedOptions == {0, 1}
TimeSpentVals == {5}

-----------------------------------------------------------------------------
(* Question collection.  A Question document has the paths of              *)
(* questionSchema, which has no `step` path: a question created through    *)
(* the schema stores none.  A question has two options here, and `correct` *)
(* is the index of the one marked isCorrect.                               *)

QuestionIds == 1..(PoolSize + 1)

\* the collection at start: PoolSize active questions and one inactive one
NewQuestions ==
  [q \in QuestionIds |->
     [isActive |-> q <= PoolSize, correct |-> q % 2,
      level |-> IF q % 2 = 1 THEN "A1" ELSE "B1"]]

AllQuestionIds == DOMAIN questionBank

UnknownQuestionIds == {99}

\* question.options[selectedOption]?.isCorrect || false
IsCorrectOption(q, opt) == opt = questionBank[q].correct

\* getStepLevels(step)
getStepLevels(step) ==
  CASE step = 1 -> {"A1", "A2"}
    [] step = 2 -> {"B1", "B2"}
    [] step = 3 -> {"C1", "C2"}
    [] OTHER -> {}

\* a set of ids as a sequence in ascending (insertion) order
RECURSIVE InOrder(_)
InOrder(ids) ==
  IF ids = {}
  THEN <<>>
  ELSE LET first == CHOOSE q \in ids : \A o \in ids : q <= o
       IN  <<first>> \o InOrder(ids \ {first})

\* Question.find({ step, isActive: true }).limit(20).  questionSchema has no
\* `step` path: with strictQuery on, the filter loses its step condition and
\* matches every active question; with it off, the condition is sent to the
\* database and matches only documents that store a step.
FindQuestions(step) ==
  LET hits == {q \in AllQuestionIds :
                 /\ questionBank[q].isActive
                 /\ \/ strictQuery
                    \/ ("step" \in DOMAIN questionBank[q] /\ questionBank[q].step = step)}
      all == InOrder(hits)
  IN  IF Len(all) <= QuestionLimit THEN all ELSE SubSeq(all, 1, QuestionLimit)

-----------------------------------------------------------------------------
(* TestSession model methods *)

RoundPercentage_toFive(correct, total) ==
  5 * ((40 * correct + total) \div (2 * total))

\* Math.round((correctAnswers / totalQuestions) * 100), halves round up
RoundPercentage(correct, total) ==
  (200 * correct + total) \div (2 * total)

determineLevelAndProgression_le(this) ==
  LET percentage == this.percentage
  IN  CASE this.step = 1 ->
             IF percentage <= 25 THEN [this EXCEPT !.levelAchieved = Null, !.canProceedToNext = FALSE]
             ELSE IF percentage <= 50 THEN [this EXCEPT !.levelAchieved = "A1", !.canProceedToNext = FALSE]
             ELSE IF percentage <= 75 THEN [this EXCEPT !.levelAchieved = "A2", !.canProceedToNext = FALSE]
             ELSE [this EXCEPT !.levelAchieved = "A2", !.canProceedToNext = TRUE]
        [] this.step = 2 ->
             IF percentage <= 25 THEN [this EXCEPT !.levelAchieved = "A2", !.canProceedToNext = FALSE]
             ELSE IF percentage <= 50 THEN [this EXCEPT !.levelAchieved = "B1", !.canProceedToNext = FALSE]
             ELSE IF percentage <= 75 THEN [this EXCEPT !.levelAchieved = "B2", !.canProceedToNext = FALSE]
             ELSE [this EXCEPT !.levelAchieved = "B2", !.canProceedToNext = TRUE]
        [] this.step = 3 ->
             IF percentage <= 25 THEN [this EXCEPT !.levelAchieved = "B2", !.canProceedToNext = FALSE]
             ELSE IF percentage <= 50 THEN [this EXCEPT !.levelAchieved = "C1", !.canProceedToNext = FALSE]
             ELSE [this EXCEPT !.levelAchieved = "C2", !.canProceedToNext = FALSE]
        [] OTHER -> this

\* testSessionSchema.methods.determineLevelAndProgression
determineLevelAndProgression(this) ==
  LET percentage == this.percentage
  IN  CASE this.step = 1 ->
             IF percentage < 25 THEN [this EXCEPT !.levelAchieved = Null, !.canProceedToNext = FALSE]
             ELSE IF percentage < 50 THEN [this EXCEPT !.levelAchieved = "A1", !.canProceedToNext = FALSE]
             ELSE IF percentage < 75 THEN [this EXCEPT !.levelAchieved = "A2", !.canProceedToNext = FALSE]
             ELSE [this EXCEPT !.levelAchieved = "A2", !.canProceedToNext = TRUE]
        [] this.step = 2 ->
             IF percentage < 25 THEN [this EXCEPT !.levelAchieved = "A2", !.canProceedToNext = FALSE]
             ELSE IF percentage < 50 THEN [this EXCEPT !.levelAchieved = "B1", !.canProceedToNext = FALSE]
             ELSE IF percentage < 75 THEN [this EXCEPT !.levelAchieved = "B2", !.canProceedToNext = FALSE]
             ELSE [this EXCEPT !.levelAchieved = "B2", !.canProceedToNext = TRUE]
        [] this.step = 3 ->
             IF percentage < 25 THEN [this EXCEPT !.levelAchieved = "B2", !.canProceedToNext = FALSE]
             ELSE IF percentage < 50 THEN [this EXCEPT !.levelAchieved = "C1", !.canProceedToNext = FALSE]
             ELSE [this EXCEPT !.levelAchieved = "C2", !.canProceedToNext = FALSE]
        [] OTHER -> this

CountCorrect(answers) == Cardinality({i \in 1..Len(answers) : answers[i].isCorrect})

PreSave_perAnswered(this) ==
  IF Len(this.answers) > 0
  THEN LET correctAnswers == CountCorrect(this.answers)
           totalQuestions == Len(this.answers)
           scored == [this EXCEPT !.score = correctAnswers,
                                  !.percentage = RoundPercentage(correctAnswers, totalQuestions)]
       IN  determineLevelAndProgression(scored)
  ELSE this

\* testSessionSchema.pre('save')
PreSave(this) ==
  IF Len(this.answers) > 0
  THEN LET correctAnswers == CountCorrect(this.answers)
           totalQuestions == Len(this.questions)
           scored == [this EXCEPT !.score = correctAnswers,
                                  !.percentage = IF totalQuestions > 0
                                                 THEN RoundPercentage(correctAnswers, totalQuestions)
                                                 ELSE 0]
       IN  determineLevelAndProgression(scored)
  ELSE this

\* testSessionSchema.methods.isExpired, with `new Date()` passed as t
isExpired(this, t) ==
  IF this.status = COMPLETED
  THEN FALSE
  ELSE t > this.startTime + this.timeLimit

\* The methods defined on testSessionSchema.methods
SessionMethods == {"determineLevelAndProgression", "isExpired", "getRemainingTime"}

-----------------------------------------------------------------------------
(* User model methods *)

canTakeTestStep_anyLevel(this, step) ==
  IF ~this.canTakeTest
  THEN FALSE
  ELSE step \in {1, 2, 3}

\* userSchema.methods.canTakeTestStep
canTakeTestStep(this, step) ==
  IF ~this.canTakeTest
  THEN FALSE
  ELSE CASE step = 1 -> this.currentLevel \in {Null, "A1", "A2"}
         [] step = 2 -> this.currentLevel \in {"A2", "B1", "B2"}
         [] step = 3 -> this.currentLevel \in {"B2", "C1", "C2"}
         [] OTHER -> FALSE

-----------------------------------------------------------------------------
(* Documents *)

NoDate == 0 - 1          \* a Date field holding null

\* new User({...}): schema defaults of currentLevel, canTakeTest, lastTestAttempt
NewUser ==
  [currentLevel |-> Null, canTakeTest |-> TRUE, lastTestAttempt |-> NoDate,
   role |-> "student", firstName |-> "Ann"]

\* new TestSession({...}) in startTest; startTime defaults to Date.now
NewTestSession(userId, step, questions, t) ==
  [userId |-> userId, step |-> step, questions |-> questions, answers |-> <<>>,
   startTime |-> t, endTime |-> NoDate, timeLimit |-> TimeLimit,
   status |-> IN_PROGRESS, score |-> 0, percentage |-> 0,
   levelAchieved |-> Null, canProceedToNext |-> FALSE]

IdleReq == [pc |-> "idle"]

NoResp == [op |-> "none", status |-> 0]

SessionIds == 1..Len(sessions)

\* TestSession.findOne({ userId, step, status: IN_PROGRESS }): first match, 0 if none
FindActiveSession(userId, step) ==
  LET hits == {i \in SessionIds : /\ sessions[i].userId = userId
                                  /\ sessions[i].step = step
                                  /\ sessions[i].status = IN_PROGRESS}
  IN  IF hits = {} THEN 0 ELSE CHOOSE i \in hits : \A j \in hits : i <= j

FindOwnActiveSession_anyStatus(sessionId, userId) ==
  IF sessionId \in SessionIds /\ sessions[sessionId].userId = userId
  THEN sessionId
  ELSE 0

FindOwnActiveSession_anyUser(sessionId, userId) ==
  IF sessionId \in SessionIds /\ sessions[sessionId].status = IN_PROGRESS
  THEN sessionId
  ELSE 0

\* TestSession.findOne({ _id: sessionId, userId, status: IN_PROGRESS }): 0 if none
FindOwnActiveSession(sessionId, userId) ==
  IF /\ sessionId \in SessionIds
     /\ sessions[sessionId].userId = userId
     /\ sessions[sessionId].status = IN_PROGRESS
  THEN sessionId
  ELSE 0

\* testSession.answers.findIndex(answer => answer.questionId === questionId): 0 if none
FindAnswerIndex(answers, questionId) ==
  LET hits == {i \in 1..Len(answers) : answers[i].questionId = questionId}
  IN  IF hits = {} THEN 0 ELSE CHOOSE i \in hits : \A j \in hits : i <= j

SeqContains(seq, x) == \E i \in 1..Len(seq) : seq[i] = x

-----------------------------------------------------------------------------
(* startTest *)

\* await User.findById(userId); user.canTakeTestStep(step)
StartTestFindUser(r, userId, step) ==
  /\ reqs[r].pc = "idle"
  /\ \A o \in Slots : reqs[o].pc = "idle" => r <= o
  /\ nreq < MaxRequests
  /\ nreq' = nreq + 1
  /\ IF ~canTakeTestStep(users[userId], step)
     THEN /\ lastResp' = [op |-> "startTest", status |-> 403, userId |-> userId, step |-> step]
          /\ reqs' = reqs
     ELSE /\ reqs' = [reqs EXCEPT ![r] = [pc |-> "startFindExisting", userId |-> userId, step |-> step]]
          /\ lastResp' = NoResp
  /\ UNCHANGED <<users, sessions, now, ticks, probe, questionBank, strictQuery, test>>

StartTestFindExisting_noResume(r) ==
  /\ reqs[r].pc = "startFindExisting"
  /\ reqs' = [reqs EXCEPT ![r] =
                [pc |-> "startSave", userId |-> reqs[r].userId, step |-> reqs[r].step,
                 doc |-> NewTestSession(reqs[r].userId, reqs[r].step,
                                        FindQuestions(reqs[r].step), now)]]
  /\ lastResp' = NoResp
  /\ UNCHANGED <<users, sessions, now, ticks, nreq, probe, questionBank, strictQuery, test>>

\* await TestSession.findOne({ userId, step, status: IN_PROGRESS });
\* await Question.find({ step, isActive: true }).limit(20) (the questions are
\* static, so this read is taken in the same step); new TestSession({...})
StartTestFindExisting(r) ==
  /\ reqs[r].pc = "startFindExisting"
  /\ LET existingSession == FindActiveSession(reqs[r].userId, reqs[r].step)
         questions == FindQuestions(reqs[r].step)
     IN  IF existingSession # 0
         THEN /\ lastResp' = [op |-> "startTest", status |-> 200, userId |-> reqs[r].userId,
                              step |-> reqs[r].step, sessionId |-> existingSession,
                              data |-> sessions[existingSession]]
              /\ reqs' = [reqs EXCEPT ![r] = IdleReq]
         ELSE IF Len(questions) = 0
         THEN /\ lastResp' = [op |-> "startTest", status |-> 404, userId |-> reqs[r].userId,
                              step |-> reqs[r].step]
              /\ reqs' = [reqs EXCEPT ![r] = IdleReq]
         ELSE /\ reqs' = [reqs EXCEPT ![r] =
                            [pc |-> "startSave", userId |-> reqs[r].userId, step |-> reqs[r].step,
                             doc |-> NewTestSession(reqs[r].userId, reqs[r].step, questions, now)]]
              /\ lastResp' = NoResp
  /\ UNCHANGED <<users, sessions, now, ticks, nreq, probe, questionBank, strictQuery, test>>

StartTestSave_stampLastAttempt(r) ==
  /\ reqs[r].pc = "startSave"
  /\ sessions' = Append(sessions, PreSave(reqs[r].doc))
  /\ users' = [users EXCEPT ![reqs[r].userId].lastTestAttempt = now + 1]
  /\ lastResp' = [op |-> "startTest", status |-> 201, userId |-> reqs[r].userId,
                  step |-> reqs[r].step, sessionId |-> Len(sessions) + 1,
                  questions |-> reqs[r].doc.questions, timeLimit |-> reqs[r].doc.timeLimit,
                  totalQuestions |-> Len(reqs[r].doc.questions)]
  /\ reqs' = [reqs EXCEPT ![r] = IdleReq]
  /\ UNCHANGED <<now, ticks, nreq, probe, questionBank, strictQuery, test>>

\* await testSession.save(); res.status(201)
StartTestSave(r) ==
  /\ reqs[r].pc = "startSave"
  /\ sessions' = Append(sessions, PreSave(reqs[r].doc))
  /\ lastResp' = [op |-> "startTest", status |-> 201, userId |-> reqs[r].userId,
                  step |-> reqs[r].step, sessionId |-> Len(sessions) + 1,
                  questions |-> reqs[r].doc.questions, timeLimit |-> reqs[r].doc.timeLimit,
                  totalQuestions |-> Len(reqs[r].doc.questions)]
  /\ reqs' = [reqs EXCEPT ![r] = IdleReq]
  /\ UNCHANGED <<users, now, ticks, nreq, probe, questionBank, strictQuery, test>>

-----------------------------------------------------------------------------
(* submitAnswer *)

\* await TestSession.findOne({ _id: sessionId, userId, status: IN_PROGRESS });
\* await Question.findById(questionId) (the questions are static, so this read
\* is taken in the same step); membership check; build answerData; replace or
\* push on the loaded document
SubmitAnswerFind(r, userId, sessionId, questionId, selectedOption, timeSpent) ==
  /\ reqs[r].pc = "idle"
  /\ \A o \in Slots : reqs[o].pc = "idle" => r <= o
  /\ nreq < MaxRequests
  /\ nreq' = nreq + 1
  /\ IF FindOwnActiveSession(sessionId, userId) = 0
     THEN /\ lastResp' = [op |-> "submitAnswer", status |-> 404, userId |-> userId,
                          sessionId |-> sessionId, message |-> "Test session not found or not active"]
          /\ reqs' = reqs
     ELSE IF questionId \notin AllQuestionIds
     THEN /\ lastResp' = [op |-> "submitAnswer", status |-> 404, userId |-> userId,
                          sessionId |-> sessionId, message |-> "Question not found"]
          /\ reqs' = reqs
     ELSE IF ~SeqContains(sessions[sessionId].questions, questionId)
     THEN /\ lastResp' = [op |-> "submitAnswer", status |-> 400, userId |-> userId,
                          sessionId |-> sessionId,
                          message |-> "Question does not belong to this test session"]
          /\ reqs' = reqs
     ELSE LET testSession == sessions[sessionId]
              existingAnswerIndex == FindAnswerIndex(testSession.answers, questionId)
              answerData == [questionId |-> questionId, selectedOption |-> selectedOption,
                             isCorrect |-> IsCorrectOption(questionId, selectedOption),
                             timeSpent |-> timeSpent]
              answers == IF existingAnswerIndex > 0
                         THEN [testSession.answers EXCEPT ![existingAnswerIndex] = answerData]
                         ELSE Append(testSession.answers, answerData)
          IN  /\ reqs' = [reqs EXCEPT ![r] =
                            [pc |-> "answerSave", userId |-> userId,
                             sessionId |-> sessionId, answerData |-> answerData,
                             existingAnswerIndex |-> existingAnswerIndex,
                             loaded |-> testSession,
                             testSession |-> [testSession EXCEPT !.answers = answers]]]
              /\ lastResp' = NoResp
  /\ UNCHANGED <<users, sessions, now, ticks, probe, questionBank, strictQuery, test>>

SaveAnswer_alwaysPush(stored, loaded, doc, existingAnswerIndex, answerData) ==
  [stored EXCEPT
     !.answers = Append(stored.answers, answerData),
     !.score = doc.score,
     !.percentage = doc.percentage,
     !.levelAchieved = doc.levelAchieved,
     !.canProceedToNext = doc.canProceedToNext]

\* The update that save() sends for a loaded document: the change made to the
\* answers array (element replaced by index, or element pushed) and every
\* scalar path whose value differs from the loaded one.
SaveAnswer(stored, loaded, doc, existingAnswerIndex, answerData) ==
  [stored EXCEPT
     !.answers = IF existingAnswerIndex > 0
                 THEN [stored.answers EXCEPT ![existingAnswerIndex] = answerData]
                 ELSE Append(stored.answers, answerData),
     !.score = IF doc.score # loaded.score THEN doc.score ELSE stored.score,
     !.percentage = IF doc.percentage # loaded.percentage
                    THEN doc.percentage ELSE stored.percentage,
     !.levelAchieved = IF doc.levelAchieved # loaded.levelAchieved
                       THEN doc.levelAchieved ELSE stored.levelAchieved,
     !.canProceedToNext = IF doc.canProceedToNext # loaded.canProceedToNext
                          THEN doc.canProceedToNext ELSE stored.canProceedToNext]

\* await testSession.save(); res.status(200)
SubmitAnswerSave(r) ==
  /\ reqs[r].pc = "answerSave"
  /\ LET doc == PreSave(reqs[r].testSession)
     IN  /\ sessions' = [sessions EXCEPT ![reqs[r].sessionId] =
                           SaveAnswer(@, reqs[r].loaded, doc,
                                      reqs[r].existingAnswerIndex, reqs[r].answerData)]
         /\ lastResp' = [op |-> "submitAnswer", status |-> 200, userId |-> reqs[r].userId,
                         sessionId |-> reqs[r].sessionId,
                         questionId |-> reqs[r].answerData.questionId,
                         isCorrect |-> reqs[r].answerData.isCorrect,
                         totalAnswered |-> Len(doc.answers),
                         totalQuestions |-> Len(doc.questions)]
  /\ reqs' = [reqs EXCEPT ![r] = IdleReq]
  /\ UNCHANGED <<users, now, ticks, nreq, probe, questionBank, strictQuery, test>>

-----------------------------------------------------------------------------
(* completeTest *)

UpdateUserLevel_lockoutAnyStep(user, testSession, t) ==
  IF testSession.percentage < 25
  THEN [user EXCEPT !.canTakeTest = FALSE, !.lastTestAttempt = t]
  ELSE [user EXCEPT !.lastTestAttempt = t]

UpdateUserLevel_lockoutBelowHalf(user, testSession, t) ==
  IF testSession.percentage < 50 /\ testSession.step = 1
  THEN [user EXCEPT !.canTakeTest = FALSE, !.lastTestAttempt = t]
  ELSE [user EXCEPT !.lastTestAttempt = t]

\* completeTest, "Update user's level and test eligibility": the level switch on
\* testSession.percentage and testSession.step, then lastTestAttempt = new Date()
UpdateUserLevel(user, testSession, t) ==
  LET percentage == testSession.percentage
      step == testSession.step
      leveled ==
        IF percentage >= 75
        THEN CASE step = 1 -> [user EXCEPT !.currentLevel = "A2"]
               [] step = 2 -> [user EXCEPT !.currentLevel = "B2"]
               [] step = 3 -> [user EXCEPT !.currentLevel = "C2"]
               [] OTHER -> user
        ELSE IF percentage >= 50
        THEN CASE step = 1 -> [user EXCEPT !.currentLevel = "A2"]
               [] step = 2 -> [user EXCEPT !.currentLevel = "B2"]
               [] step = 3 -> [user EXCEPT !.currentLevel = "C1"]
               [] OTHER -> user
        ELSE IF percentage >= 25
        THEN CASE step = 1 -> [user EXCEPT !.currentLevel = "A1"]
               [] step = 2 -> [user EXCEPT !.currentLevel = "B1"]
               [] step = 3 -> [user EXCEPT !.currentLevel = "C1"]
               [] OTHER -> user
        ELSE IF step = 1
        THEN [user EXCEPT !.canTakeTest = FALSE]
        ELSE user
  IN  [leveled EXCEPT !.lastTestAttempt = t]

\* res.status(200).json({...}) of completeTest
CompleteTestResponse(userId, sessionId, testSession, user) ==
  [op |-> "completeTest", status |-> 200, userId |-> userId, sessionId |-> sessionId,
   score |-> testSession.score, percentage |-> testSession.percentage,
   levelAchieved |-> user.currentLevel,
   canProceedToNext |-> testSession.percentage >= 75,
   timeTaken |-> testSession.endTime - testSession.startTime,
   totalQuestions |-> Len(testSession.questions),
   correctAnswers |-> testSession.score]

CompleteTest_anyStatus(userId, sessionId) ==
  /\ nreq < MaxRequests
  /\ nreq' = nreq + 1
  /\ IF ~(sessionId \in SessionIds /\ sessions[sessionId].userId = userId)
     THEN /\ lastResp' = [op |-> "completeTest", status |-> 404, userId |-> userId,
                          sessionId |-> sessionId]
          /\ UNCHANGED <<users, sessions>>
     ELSE LET testSession == PreSave([sessions[sessionId] EXCEPT !.status = COMPLETED,
                                                                !.endTime = now])
              user == UpdateUserLevel(users[userId], testSession, now)
          IN  /\ sessions' = [sessions EXCEPT ![sessionId] = testSession]
              /\ users' = [users EXCEPT ![userId] = user]
              /\ lastResp' = CompleteTestResponse(userId, sessionId, testSession, user)
  /\ UNCHANGED <<now, ticks, reqs, probe, questionBank, strictQuery, test>>

\* completeTest (submitTest is an alias).  After the findOne the handler sets
\* status and endTime on the loaded document and calls
\* testSession.calculateScore(); the schema defines no such method, so the
\* call throws a TypeError, which the catch block answers with 500 before
\* anything is saved.
CompleteTest(userId, sessionId) ==
  /\ nreq < MaxRequests
  /\ nreq' = nreq + 1
  /\ LET found == FindOwnActiveSession(sessionId, userId) # 0
     IN  IF ~found
         THEN /\ lastResp' = [op |-> "completeTest", status |-> 404, userId |-> userId,
                              sessionId |-> sessionId]
              /\ UNCHANGED <<users, sessions>>
         ELSE IF "calculateScore" \notin SessionMethods
         THEN /\ lastResp' = [op |-> "completeTest", status |-> 500, userId |-> userId,
                              sessionId |-> sessionId]
              /\ UNCHANGED <<users, sessions>>
         ELSE LET testSession == PreSave([sessions[sessionId] EXCEPT !.status = COMPLETED,
                                                                    !.endTime = now])
                  user == UpdateUserLevel(users[userId], testSession, now)
              IN  /\ sessions' = [sessions EXCEPT ![sessionId] = testSession]
                  /\ users' = [users EXCEPT ![userId] = user]
                  /\ lastResp' = CompleteTestResponse(userId, sessionId, testSession, user)
  /\ UNCHANGED <<now, ticks, reqs, probe, questionBank, strictQuery, test>>

\* getTestSession: TestSession.findOne({ _id: sessionId, userId })
\* .populate('questions'); the session is returned whatever its status, with
\* the stored documents of its questions in place of their ids
GetTestSession(userId, sessionId) ==
  /\ nreq < MaxRequests
  /\ nreq' = nreq + 1
  /\ IF sessionId \in SessionIds /\ sessions[sessionId].userId = userId
     THEN lastResp' = [op |-> "getTestSession", status |-> 200, userId |-> userId,
                       sessionId |-> sessionId, data |-> sessions[sessionId],
                       questions |-> [k \in 1..Len(sessions[sessionId].questions) |->
                                        questionBank[sessions[sessionId].questions[k]]]]
     ELSE lastResp' = [op |-> "getTestSession", status |-> 404, userId |-> userId,
                       sessionId |-> sessionId]
  /\ UNCHANGED <<users, sessions, now, ticks, reqs, probe, questionBank, strictQuery, test>>

-----------------------------------------------------------------------------
(* questionController *)

\* updateQuestion: Question.findByIdAndUpdate(id, updateData, ...), with
\* updateData.options marking one option as the correct one
UpdateQuestion(id, correct) ==
  /\ nreq < MaxRequests
  /\ nreq' = nreq + 1
  /\ IF id \in AllQuestionIds
     THEN /\ questionBank' = [questionBank EXCEPT ![id].correct = correct]
          /\ lastResp' = [op |-> "updateQuestion", status |-> 200, questionId |-> id]
     ELSE /\ questionBank' = questionBank
          /\ lastResp' = [op |-> "updateQuestion", status |-> 404, questionId |-> id]
  /\ UNCHANGED <<users, sessions, now, ticks, reqs, probe, strictQuery, test>>

-----------------------------------------------------------------------------
(* userController *)

UpdateUserProfile_replaceDocument(userId, firstName) ==
  /\ nreq < MaxRequests
  /\ nreq' = nreq + 1
  /\ users' = [users EXCEPT ![userId] = [NewUser EXCEPT !.firstName = firstName]]
  /\ lastResp' = [op |-> "updateUserProfile", status |-> 200, userId |-> userId]
  /\ UNCHANGED <<sessions, now, ticks, reqs, probe, questionBank, strictQuery, test>>

\* updateUserProfile: only the profile fields are assigned, so save() writes
\* only those paths
UpdateUserProfile(userId, firstName) ==
  /\ nreq < MaxRequests
  /\ nreq' = nreq + 1
  /\ users' = [users EXCEPT ![userId].firstName = firstName]
  /\ lastResp' = [op |-> "updateUserProfile", status |-> 200, userId |-> userId]
  /\ UNCHANGED <<sessions, now, ticks, reqs, probe, questionBank, strictQuery, test>>

\* The parameter names of the route of updateUserRole: router.put('/:id/role')
RoleRouteParams == {"id"}

\* User.findById(userId): the user id, Null if userId is undefined or matches
\* no document
FindUserById(userId) == IF userId \in Users THEN userId ELSE Null

\* updateUserRole behind PUT /:id/role.  The handler reads req.params.userId,
\* a parameter the route does not bind, so findById finds no user; the
\* resulting AppError is rethrown by the catch block as a 500.
UpdateUserRole(id, role) ==
  /\ nreq < MaxRequests
  /\ nreq' = nreq + 1
  /\ LET userId == IF "userId" \in RoleRouteParams THEN id ELSE Null
         user == FindUserById(userId)
     IN  IF user = Null
         THEN /\ lastResp' = [op |-> "updateUserRole", status |-> 500, userId |-> id]
              /\ users' = users
         ELSE /\ users' = [users EXCEPT ![user].role = role]
              /\ lastResp' = [op |-> "updateUserRole", status |-> 200, userId |-> id]
  /\ UNCHANGED <<sessions, now, ticks, reqs, probe, questionBank, strictQuery, test>>

-----------------------------------------------------------------------------
(* The client's test slice (createSlice name 'test').  One action per      *)
(* reducer, with the reducer's payload as the action's parameter.  The     *)
(* questions of a session are their count; startTime, a wall-clock string   *)
(* that no reducer reads, is left out.                                     *)

ClientServerVars ==
  <<users, sessions, now, ticks, nreq, reqs, lastResp, probe, questionBank, strictQuery>>

\* currentSession: null
NoSession == [sessionId |-> Null]

initialState ==
  [currentSession |-> NoSession, lastResult |-> Null, loading |-> FALSE, error |-> Null,
   isTimerRunning |-> FALSE]

ClientQuestionCounts == {PoolSize}
ClientTimeLimits == 0..MaxTimeLimit
ClientIndexInputs == 0..PoolSize        \* the indexes of the questions and one past them
ClientErrors == {Null, "failed"}
ClientResults == {"result"}

\* new Array(questions.length).fill(-1)
NoAnswers(n) == [k \in 1..n |-> 0 - 1]

\* array[index] = value on a JavaScript array (index is 0-based): an index
\* equal to the length appends
ArraySet(array, index, value) ==
  IF index + 1 \in 1..Len(array)
  THEN [array EXCEPT ![index + 1] = value]
  ELSE Append(array, value)

HasOpenSession == test.currentSession # NoSession /\ ~test.currentSession.isSubmitted

setLoading(payload) ==
  /\ test' = [test EXCEPT !.loading = payload]
  /\ UNCHANGED ClientServerVars

setError(payload) ==
  /\ test' = [test EXCEPT !.error = payload]
  /\ UNCHANGED ClientServerVars

clearError ==
  /\ test' = [test EXCEPT !.error = Null]
  /\ UNCHANGED ClientServerVars

startTestSession(sessionId, questions, step, level, timeLimit) ==
  /\ test' = [test EXCEPT
                !.currentSession =
                   [sessionId |-> sessionId, questions |-> questions,
                    currentQuestionIndex |-> 0, answers |-> NoAnswers(questions),
                    timeRemaining |-> timeLimit, timeSpent |-> 0, step |-> step,
                    level |-> level, isActive |-> TRUE, isSubmitted |-> FALSE],
                !.isTimerRunning = TRUE,
                !.loading = FALSE,
                !.error = Null]
  /\ UNCHANGED ClientServerVars

goToQuestion(payload) ==
  /\ test' = IF HasOpenSession
             THEN [test EXCEPT !.currentSession.currentQuestionIndex = payload]
             ELSE test
  /\ UNCHANGED ClientServerVars

nextQuestion ==
  /\ test' = IF HasOpenSession
             THEN LET maxIndex == test.currentSession.questions - 1
                  IN  IF test.currentSession.currentQuestionIndex < maxIndex
                      THEN [test EXCEPT !.currentSession.currentQuestionIndex = @ + 1]
                      ELSE test
             ELSE test
  /\ UNCHANGED ClientServerVars

previousQuestion ==
  /\ test' = IF HasOpenSession /\ test.currentSession.currentQuestionIndex > 0
             THEN [test EXCEPT !.currentSession.currentQuestionIndex = @ - 1]
             ELSE test
  /\ UNCHANGED ClientServerVars

selectAnswer(payload) ==
  /\ test' = IF HasOpenSession
             THEN LET questionIndex == test.currentSession.currentQuestionIndex
                  IN  [test EXCEPT !.currentSession.answers =
                                      ArraySet(@, questionIndex, payload)]
             ELSE test
  /\ UNCHANGED ClientServerVars

updateTimer_noSubmittedCheck ==
  /\ test' = IF /\ test.currentSession # NoSession
                /\ test.isTimerRunning
                /\ test.currentSession.timeSpent <= MaxTimeSpent
             THEN LET timeRemaining == test.currentSession.timeRemaining - 1
                      ticked == [test EXCEPT !.currentSession.timeRemaining = timeRemaining,
                                             !.currentSession.timeSpent = @ + 1]
                  IN  IF timeRemaining <= 0
                      THEN [ticked EXCEPT !.currentSession.isSubmitted = TRUE,
                                          !.currentSession.isActive = FALSE,
                                          !.isTimerRunning = FALSE]
                      ELSE ticked
             ELSE test
  /\ UNCHANGED ClientServerVars

\* updateTimer: one tick, with the auto-submit when the time has run out
updateTimer ==
  /\ test' = IF HasOpenSession /\ test.isTimerRunning
             THEN LET timeRemaining == test.currentSession.timeRemaining - 1
                      ticked == [test EXCEPT !.currentSession.timeRemaining = timeRemaining,
                                             !.currentSession.timeSpent = @ + 1]
                  IN  IF timeRemaining <= 0
                      THEN [ticked EXCEPT !.currentSession.isSubmitted = TRUE,
                                          !.currentSession.isActive = FALSE,
                                          !.isTimerRunning = FALSE]
                      ELSE ticked
             ELSE test
  /\ UNCHANGED ClientServerVars

startTimer ==
  /\ test' = [test EXCEPT !.isTimerRunning = TRUE]
  /\ UNCHANGED ClientServerVars

stopTimer ==
  /\ test' = [test EXCEPT !.isTimerRunning = FALSE]
  /\ UNCHANGED ClientServerVars

pauseTimer ==
  /\ test' = [test EXCEPT !.isTimerRunning = FALSE]
  /\ UNCHANGED ClientServerVars

resumeTimer ==
  /\ test' = IF HasOpenSession THEN [test EXCEPT !.isTimerRunning = TRUE] ELSE test
  /\ UNCHANGED ClientServerVars

submitTest ==
  /\ test' = IF test.currentSession # NoSession
             THEN [test EXCEPT !.currentSession.isSubmitted = TRUE,
                               !.currentSession.isActive = FALSE,
                               !.isTimerRunning = FALSE]
             ELSE test
  /\ UNCHANGED ClientServerVars

setTestResult(payload) ==
  /\ test' = [test EXCEPT !.lastResult = payload, !.loading = FALSE]
  /\ UNCHANGED ClientServerVars

clearTestSession ==
  /\ test' = [test EXCEPT !.currentSession = NoSession, !.isTimerRunning = FALSE,
                          !.loading = FALSE, !.error = Null]
  /\ UNCHANGED ClientServerVars

clearTestResult ==
  /\ test' = [test EXCEPT !.lastResult = Null]
  /\ UNCHANGED ClientServerVars

resetTestState ==
  /\ test' = initialState
  /\ UNCHANGED ClientServerVars

\* setTimeRemaining; the payload is kept within what is left of MaxTimeSpent
setTimeRemaining(payload) ==
  /\ test.currentSession # NoSession => test.currentSession.timeSpent + payload <= MaxTimeSpent
  /\ test' = IF test.currentSession # NoSession
             THEN [test EXCEPT !.currentSession.timeRemaining = payload]
             ELSE test
  /\ UNCHANGED ClientServerVars

-----------------------------------------------------------------------------
(* Clock *)

Tick(d) ==
  /\ ticks < MaxTicks
  /\ ticks' = ticks + 1
  /\ now' = now + d
  /\ lastResp' = NoResp
  /\ UNCHANGED <<users, sessions, nreq, reqs, probe, questionBank, strictQuery, test>>

-----------------------------------------------------------------------------
(* The server *)

NoProbe == [fn |-> "none"]

Init ==
  /\ users = [u \in Users |-> NewUser]
  /\ sessions = <<>>
  /\ now = 0
  /\ ticks = 0
  /\ nreq = 0
  /\ reqs = [r \in Slots |-> IdleReq]
  /\ lastResp = NoResp
  /\ probe = NoProbe
  /\ questionBank = NewQuestions
  /\ strictQuery \in BOOLEAN
  /\ test = initialState

SessionIdInputs == 1..(Len(sessions) + 1)

\* req.params.id of updateQuestion: the active questions
UpdateQuestionIds == 1..PoolSize

\* the questions of the session, the stored questions that are not of the
\* session and an id of no question
QuestionIdInputs(sid) ==
  IF sid \in SessionIds
  THEN AllQuestionIds \cup UnknownQuestionIds
  ELSE UnknownQuestionIds

Next ==
  \/ \E r \in Slots, u \in Users, step \in Steps : StartTestFindUser(r, u, step)
  \/ \E r \in Slots : StartTestFindExisting(r)
  \/ \E r \in Slots : StartTestSave(r)
  \/ \E r \in Slots, u \in Users, sid \in SessionIdInputs :
       \E q \in QuestionIdInputs(sid), opt \in SelectedOptions, ts \in TimeSpentVals :
          SubmitAnswerFind(r, u, sid, q, opt, ts)
  \/ \E r \in Slots : SubmitAnswerSave(r)
  \/ \E u \in Users, sid \in SessionIdInputs : CompleteTest(u, sid)
  \/ \E u \in Users, sid \in SessionIdInputs : GetTestSession(u, sid)
  \/ \E q \in UpdateQuestionIds, c \in SelectedOptions : UpdateQuestion(q, c)
  \/ \E u \in Users, n \in FirstNameInputs : UpdateUserProfile(u, n)
  \/ \E u \in Users, role \in RoleInputs : UpdateUserRole(u, role)
  \/ \E d \in ClockSteps : Tick(d)

Spec == Init /\ [][Next]_vars

-----------------------------------------------------------------------------
(* The same server over a database in which user u1 already holds a        *)
(* standing (any level, either value of canTakeTest).                      *)

SeededUser(level, canTakeTest) ==
  [NewUser EXCEPT !.currentLevel = level, !.canTakeTest = canTakeTest]

InitSeeded ==
  /\ \E level \in Levels \cup {Null}, canTakeTest \in BOOLEAN :
       users = [u \in Users |-> IF u = "u1" THEN SeededUser(level, canTakeTest) ELSE NewUser]
  /\ sessions = <<>>
  /\ now = 0
  /\ ticks = 0
  /\ nreq = 0
  /\ reqs = [r \in Slots |-> IdleReq]
  /\ lastResp = NoResp
  /\ probe = NoProbe
  /\ questionBank = NewQuestions
  /\ strictQuery \in BOOLEAN
  /\ test = initialState

SpecSeeded == InitSeeded /\ [][Next]_vars

-----------------------------------------------------------------------------
(* The same server over a database that holds a COMPLETED step-1 session   *)
(* of user u1, every question answered and `correct` of them correctly,    *)
(* and the standing of u1 that completeTest's user update derives from it. *)

CompletedSession(correct) ==
  LET qs == InOrder({q \in QuestionIds : NewQuestions[q].isActive})
  IN  PreSave([NewTestSession("u1", 1, qs, 0) EXCEPT
                 !.answers = [k \in 1..Len(qs) |->
                                [questionId |-> qs[k],
                                 selectedOption |-> IF k <= correct
                                                    THEN NewQuestions[qs[k]].correct
                                                    ELSE 1 - NewQuestions[qs[k]].correct,
                                 isCorrect |-> k <= correct, timeSpent |-> 0]],
                 !.status = COMPLETED,
                 !.endTime = 0])

InitCompleted ==
  /\ \E correct \in 0..PoolSize :
       /\ sessions = <<CompletedSession(correct)>>
       /\ users = [u \in Users |-> IF u = "u1"
                                   THEN UpdateUserLevel(NewUser, CompletedSession(correct), 0)
                                   ELSE NewUser]
  /\ now = 0
  /\ ticks = 0
  /\ nreq = 0
  /\ reqs = [r \in Slots |-> IdleReq]
  /\ lastResp = NoResp
  /\ probe = NoProbe
  /\ questionBank = NewQuestions
  /\ strictQuery \in BOOLEAN
  /\ test = initialState

SpecCompleted == InitCompleted /\ [][Next]_vars

-----------------------------------------------------------------------------
(* The level rules as functions: one evaluation of a model method, or of   *)
(* the standing update of completeTest, on inputs drawn in the initial     *)
(* state.                                                                  *)

StepInputs == 0..4

ProbeInputs ==
  [fn : {"none"}, step : StepInputs, percentage : 0..MaxPercentage,
   currentLevel : Levels \cup {Null}, canTakeTest : BOOLEAN]

ProbeUser == SeededUser(probe.currentLevel, probe.canTakeTest)

ProbeSession ==
  [NewTestSession("u1", probe.step, FindQuestions(probe.step), 0) EXCEPT !.percentage = probe.percentage]

InitRules ==
  /\ users = [u \in Users |-> NewUser]
  /\ sessions = <<>>
  /\ now = 0
  /\ ticks = 0
  /\ nreq = 0
  /\ reqs = [r \in Slots |-> IdleReq]
  /\ lastResp = NoResp
  /\ probe \in ProbeInputs
  /\ questionBank = NewQuestions
  /\ strictQuery = TRUE
  /\ test = initialState

\* this.determineLevelAndProgression() on a session with the given step and percentage
EvalDetermineLevelAndProgression ==
  /\ probe.fn = "none"
  /\ LET out == determineLevelAndProgression(ProbeSession)
     IN  probe' = [fn |-> "determineLevelAndProgression", step |-> probe.step,
                   percentage |-> probe.percentage, currentLevel |-> probe.currentLevel,
                   canTakeTest |-> probe.canTakeTest,
                   levelAchieved |-> out.levelAchieved,
                   canProceedToNext |-> out.canProceedToNext]
  /\ UNCHANGED <<users, sessions, now, ticks, nreq, reqs, lastResp, questionBank, strictQuery, test>>

\* user.canTakeTestStep(step) on a user with the given standing
EvalCanTakeTestStep ==
  /\ probe.fn = "none"
  /\ probe' = [fn |-> "canTakeTestStep", step |-> probe.step,
               percentage |-> probe.percentage, currentLevel |-> probe.currentLevel,
               canTakeTest |-> probe.canTakeTest,
               result |-> canTakeTestStep(ProbeUser, probe.step)]
  /\ UNCHANGED <<users, sessions, now, ticks, nreq, reqs, lastResp, questionBank, strictQuery, test>>

\* completeTest from "Update user's level and test eligibility" to the response,
\* on a saved session with the given step and percentage and a user with the
\* given standing
EvalCompleteTestUpdate ==
  /\ probe.fn = "none"
  /\ probe.step \in Steps
  /\ LET testSession == determineLevelAndProgression([ProbeSession EXCEPT !.status = COMPLETED,
                                                                         !.endTime = 0])
         user == UpdateUserLevel(ProbeUser, testSession, 0)
         resp == CompleteTestResponse("u1", 1, testSession, user)
     IN  probe' = [fn |-> "completeTestUpdate", step |-> probe.step,
                   percentage |-> probe.percentage, currentLevel |-> probe.currentLevel,
                   canTakeTest |-> probe.canTakeTest,
                   sessionLevelAchieved |-> testSession.levelAchieved,
                   sessionCanProceedToNext |-> testSession.canProceedToNext,
                   newLevel |-> user.currentLevel,
                   newCanTakeTest |-> user.canTakeTest,
                   respLevelAchieved |-> resp.levelAchieved,
                   respCanProceedToNext |-> resp.canProceedToNext]
  /\ UNCHANGED <<users, sessions, now, ticks, nreq, reqs, lastResp, questionBank, strictQuery, test>>

NextRules ==
  \/ EvalDetermineLevelAndProgression
  \/ EvalCanTakeTestStep
  \/ EvalCompleteTestUpdate

SpecRules == InitRules /\ [][NextRules]_vars

-----------------------------------------------------------------------------
(* The save of completeTest as a function: the handler's assignments to    *)
(* the loaded session followed by the pre-save hook, on a stored session   *)
(* with `total` questions of which `answered` are answered and `correct`   *)
(* answered correctly.                                                     *)

ScoreInputs ==
  {p \in [fn : {"none"}, step : Steps, total : 1..QuestionLimit,
          answered : 0..QuestionLimit, correct : 0..QuestionLimit] :
     p.correct <= p.answered /\ p.answered <= p.total}

\* the stored session: answers to the first `answered` questions, saved
\* through the pre-save hook
ScoreSession ==
  PreSave([NewTestSession("u1", probe.step, [k \in 1..probe.total |-> k], 0) EXCEPT
             !.answers = [k \in 1..probe.answered |->
                            [questionId |-> k, selectedOption |-> 0,
                             isCorrect |-> k <= probe.correct, timeSpent |-> 0]]])

InitScore ==
  /\ users = [u \in Users |-> NewUser]
  /\ sessions = <<>>
  /\ now = 0
  /\ ticks = 0
  /\ nreq = 0
  /\ reqs = [r \in Slots |-> IdleReq]
  /\ lastResp = NoResp
  /\ probe \in ScoreInputs
  /\ questionBank = NewQuestions
  /\ strictQuery = TRUE
  /\ test = initialState

\* testSession.status = COMPLETED; testSession.endTime = new Date();
\* await testSession.save()
EvalCompleteTestSave ==
  /\ probe.fn = "none"
  /\ LET testSession == PreSave([ScoreSession EXCEPT !.status = COMPLETED,
                                                     !.endTime = TimeLimit])
     IN  probe' = [fn |-> "completeTestSave", step |-> probe.step, total |-> probe.total,
                   answered |-> probe.answered, correct |-> probe.correct,
                   status |-> testSession.status, score |-> testSession.score,
                   percentage |-> testSession.percentage,
                   levelAchieved |-> testSession.levelAchieved,
                   canProceedToNext |-> testSession.canProceedToNext]
  /\ UNCHANGED <<users, sessions, now, ticks, nreq, reqs, lastResp, questionBank, strictQuery, test>>

NextScore == EvalCompleteTestSave

SpecScore == InitScore /\ [][NextScore]_vars

-----------------------------------------------------------------------------
(* The client's test slice on its own: every reducer dispatched in any     *)
(* order on the slice's initial state.                                     *)

InitClient ==
  /\ users = [u \in Users |-> NewUser]
  /\ sessions = <<>>
  /\ now = 0
  /\ ticks = 0
  /\ nreq = 0
  /\ reqs = [r \in Slots |-> IdleReq]
  /\ lastResp = NoResp
  /\ probe = NoProbe
  /\ questionBank = NewQuestions
  /\ strictQuery = TRUE
  /\ test = initialState

NextClient ==
  \/ \E payload \in BOOLEAN : setLoading(payload)
  \/ \E payload \in ClientErrors : setError(payload)
  \/ clearError
  \/ \E sessionId \in Slots, questions \in ClientQuestionCounts, timeLimit \in ClientTimeLimits :
       startTestSession(sessionId, questions, 1, "A1", timeLimit)
  \/ \E payload \in ClientIndexInputs : goToQuestion(payload)
  \/ nextQuestion
  \/ previousQuestion
  \/ \E payload \in SelectedOptions : selectAnswer(payload)
  \/ updateTimer
  \/ startTimer
  \/ stopTimer
  \/ pauseTimer
  \/ resumeTimer
  \/ submitTest
  \/ \E payload \in ClientResults : setTestResult(payload)
  \/ clearTestSession
  \/ clearTestResult
  \/ resetTestState
  \/ \E payload \in ClientTimeLimits : setTimeRemaining(payload)

SpecClient == InitClient /\ [][NextClient]_vars

-----------------------------------------------------------------------------
(* The rules of the specification, section 4.1 *)

\* canStartStage(stage, standing)
CanStartStage(stage, standing) ==
  CASE stage = 1 -> standing.canTakeTest /\ standing.currentLevel \in {Null, "A1", "A2"}
    [] stage = 2 -> standing.currentLevel \in {"A2", "B1", "B2"}
    [] stage = 3 -> standing.currentLevel \in {"B2", "C1", "C2"}
    [] OTHER -> FALSE

\* the band of a percentage: 0 for [0,25), 1 for [25,50), 2 for [50,75), 3 for [75,100]
Band(p) == IF p \div 25 > 3 THEN 3 ELSE p \div 25

\* the outcome <<levelAchieved, canProceedToNext>> of each stage, band by band
BandTable ==
  << << <<Null, FALSE>>, <<"A1", FALSE>>, <<"A2", FALSE>>, <<"A2", TRUE>> >>,
     << <<"A2", FALSE>>, <<"B1", FALSE>>, <<"B2", FALSE>>, <<"B2", TRUE>> >>,
     << <<"B2", FALSE>>, <<"C1", FALSE>>, <<"C2", FALSE>>, <<"C2", FALSE>> >> >>

\* User Standing: level, canRetake, lastAttempt
Standing(user) == <<user.currentLevel, user.canTakeTest, user.lastTestAttempt>>

\* the questionIds answered in an answer list
AnsweredIds(answers) == {answers[i].questionId : i \in 1..Len(answers)}

\* no two tuples of the answer list have the same questionId
OneTuplePerQuestion(answers) == Cardinality(AnsweredIds(answers)) = Len(answers)

\* the percentage a save would store for a session
PercentageOf(s) ==
  IF Len(s.answers) > 0
  THEN RoundPercentage(CountCorrect(s.answers), Len(s.questions))
  ELSE s.percentage

-----------------------------------------------------------------------------
(* Claims *)

\* C1: for every stage 1..3 and percentage 0..100 the outcome
\* (levelAchieved, canProceedToNext) that determineLevelAndProgression computes
\* is the entry of the band table for the stage and the band of the
\* percentage; 25, 50 and 75 fall in the upper band.
C1_BandTable ==
  (probe.fn = "determineLevelAndProgression" /\ probe.step \in Steps)
    => <<probe.levelAchieved, probe.canProceedToNext>>
         = BandTable[probe.step][Band(probe.percentage) + 1]

C1_Witness ==
  /\ probe.fn = "determineLevelAndProgression"
  /\ probe.step = 1
  /\ probe.percentage = 75
  /\ probe.levelAchieved = "A2"
  /\ probe.canProceedToNext

\* C2: canTakeTestStep(stage) on a standing is true exactly when canStartStage
\* of the specification is: stage 1 needs canRetake and level null, A1 or A2;
\* stages 2 and 3 depend on the level only; any other stage is false.
C2_CanStartStage ==
  probe.fn = "canTakeTestStep" => probe.result = CanStartStage(probe.step, ProbeUser)

\* C3: in every reachable state there is at most one IN_PROGRESS attempt per
\* (user, stage).
C3_OneActivePerUserStage ==
  \A i, j \in SessionIds :
    (/\ sessions[i].status = IN_PROGRESS
     /\ sessions[j].status = IN_PROGRESS
     /\ sessions[i].userId = sessions[j].userId
     /\ sessions[i].step = sessions[j].step) => i = j

\* C4: a startTest that passed the eligibility check and finds an IN_PROGRESS
\* attempt of its user and stage answers 200 with that attempt (the first one
\* stored) as it is stored, and changes neither the sessions nor the users.
C4_IdempotentResume ==
  [][/\ \A r \in Slots :
          (StartTestFindExisting(r) /\ FindActiveSession(reqs[r].userId, reqs[r].step) # 0)
            => /\ lastResp'.op = "startTest"
               /\ lastResp'.status = 200
               /\ lastResp'.sessionId = FindActiveSession(reqs[r].userId, reqs[r].step)
               /\ reqs'[r] = IdleReq
     /\ (lastResp'.op = "startTest" /\ lastResp'.status = 200)
          => /\ sessions' = sessions
             /\ users' = users
             /\ lastResp'.sessionId \in SessionIds
             /\ lastResp'.data = sessions[lastResp'.sessionId]
             /\ sessions[lastResp'.sessionId].userId = lastResp'.userId
             /\ sessions[lastResp'.sessionId].step = lastResp'.step
             /\ sessions[lastResp'.sessionId].status = IN_PROGRESS]_vars

C4_Witness ==
  /\ lastResp.op = "startTest"
  /\ lastResp.status = 200
  /\ Len(sessions[lastResp.sessionId].answers) > 0

\* C5: a completeTest issued by the owner of an IN_PROGRESS attempt succeeds:
\* the stored status becomes COMPLETED with endTime set, and the response
\* carries the score, percentage, levelAchieved and canProceedToNext of the
\* attempt.
C5_FinalizeSucceeds ==
  [][\A u \in Users, sid \in SessionIdInputs :
       (CompleteTest(u, sid) /\ FindOwnActiveSession(sid, u) # 0)
         => /\ lastResp'.op = "completeTest"
            /\ lastResp'.status = 200
            /\ sessions'[sid].status = COMPLETED
            /\ sessions'[sid].endTime # NoDate
            /\ lastResp'.score = CountCorrect(sessions[sid].answers)
            /\ lastResp'.percentage = PercentageOf(sessions[sid])
            /\ <<lastResp'.levelAchieved, lastResp'.canProceedToNext>>
                 = BandTable[sessions[sid].step][Band(PercentageOf(sessions[sid])) + 1]]_vars

\* C6: a submitAnswer that arrives for an IN_PROGRESS attempt of its user whose
\* time budget has elapsed (now > startTime + timeLimit) is rejected: it is
\* answered with an error and goes on to no save.
C6_ExpiredAnswerRejected ==
  [][\A r \in Slots, u \in Users, sid \in SessionIdInputs :
       \A q \in QuestionIdInputs(sid), opt \in SelectedOptions, ts \in TimeSpentVals :
         (/\ SubmitAnswerFind(r, u, sid, q, opt, ts)
          /\ FindOwnActiveSession(sid, u) # 0
          /\ isExpired(sessions[sid], now))
           => /\ lastResp'.op = "submitAnswer"
              /\ lastResp'.status # 200
              /\ reqs'[r] = IdleReq]_vars

C8_StageOneFailOutcome ==
  (/\ probe.fn = "completeTestUpdate"
   /\ probe.step = 1
   /\ probe.percentage < 25
   /\ probe.canTakeTest
   /\ probe.currentLevel \in {Null, "A1", "A2"})
    => /\ probe.respLevelAchieved = Null
       /\ probe.respCanProceedToNext = FALSE
       /\ probe.newCanTakeTest = FALSE
       /\ probe.newLevel = probe.currentLevel
       /\ ~canTakeTestStep(SeededUser(probe.newLevel, probe.newCanTakeTest), 1)

\* C9: once a user's canTakeTest is false it is false after every step, so
\* canTakeTestStep(1) stays false for that user.
C9_CanRetakeStaysFalse ==
  [][\A u \in Users :
       ~users[u].canTakeTest
         => (~users'[u].canTakeTest /\ ~canTakeTestStep(users'[u], 1))]_vars

C9_Witness ==
  /\ ~users["u1"].canTakeTest
  /\ users["u1"].firstName = "Bea"
  /\ lastResp.op = "startTest"
  /\ lastResp.userId = "u1"
  /\ lastResp.status = 403

\* C10: finalizing a Stage-3 attempt with percentage in [50,75) answers with
\* levelAchieved = C2 and sets the user's level to C2.
C10_StageThreeMidBand ==
  (/\ probe.fn = "completeTestUpdate"
   /\ probe.step = 3
   /\ probe.percentage >= 50
   /\ probe.percentage < 75)
    => /\ probe.respLevelAchieved = "C2"
       /\ probe.newLevel = "C2"

C15_StandingOnlyByFinalize ==
  [][\A u \in Users :
       Standing(users'[u]) # Standing(users[u])
         => \E sid \in SessionIdInputs : CompleteTest(u, sid)]_vars

C15_Witness ==
  /\ users["u1"].currentLevel = "B2"
  /\ users["u1"].firstName = "Bea"
  /\ lastResp.op = "submitAnswer"
  /\ lastResp.userId = "u1"
  /\ lastResp.status = 200

\* C16: a step that answers a request of the owner about one of their
\* IN_PROGRESS sessions whose time limit has passed (submitAnswer,
\* completeTest, startTest resuming it, getTestSession) leaves the session
\* COMPLETED with endTime = startTime + timeLimit and the score of its
\* recorded answers.
C16_ExpiredFinalizedOnAccess ==
  [][\A sid \in SessionIds :
       (/\ sessions[sid].status = IN_PROGRESS
        /\ isExpired(sessions[sid], now)
        /\ lastResp'.op \in {"submitAnswer", "completeTest", "startTest", "getTestSession"}
        /\ "sessionId" \in DOMAIN lastResp'
        /\ lastResp'.sessionId = sid
        /\ lastResp'.userId = sessions[sid].userId)
         => /\ sessions'[sid].status = COMPLETED
            /\ sessions'[sid].endTime = sessions[sid].startTime + sessions[sid].timeLimit
            /\ sessions'[sid].score = CountCorrect(sessions[sid].answers)]_vars

\* C17: every session that is stored has exactly QuestionLimit (20)
\* questions, each an active question of a level of the session's step; and a
\* startTest that finds fewer than QuestionLimit such questions is answered
\* with an error and goes on to no save.
C17_FixedQuestionCount ==
  [][/\ Len(sessions') > Len(sessions)
          => LET s == sessions'[Len(sessions')]
             IN  /\ Len(s.questions) = QuestionLimit
                 /\ \A k \in 1..Len(s.questions) :
                      /\ questionBank[s.questions[k]].isActive
                      /\ questionBank[s.questions[k]].level \in getStepLevels(s.step)
     /\ \A r \in Slots :
          (/\ StartTestFindExisting(r)
           /\ FindActiveSession(reqs[r].userId, reqs[r].step) = 0
           /\ Cardinality({q \in AllQuestionIds :
                             /\ questionBank[q].isActive
                             /\ questionBank[q].level \in getStepLevels(reqs[r].step)})
                < QuestionLimit)
            => /\ lastResp'.op = "startTest"
               /\ lastResp'.status \notin {200, 201}
               /\ reqs'[r] = IdleReq]_vars

\* C18: when a submitAnswer saves onto the session as it loaded it (no other
\* write in between) and the stored answers have one tuple per questionId,
\* then afterwards the answers still have one tuple per questionId, every
\* questionId is one of the session's questions, the tuple of the submitted
\* question carries the submitted option, the tuples of the other questions
\* are as before, and the totalAnswered returned is the number of distinct
\* questions answered, at most the number of questions.
C18_AnswerListInvariant ==
  [][\A r \in Slots :
       (/\ SubmitAnswerSave(r)
        /\ reqs[r].loaded = sessions[reqs[r].sessionId]
        /\ OneTuplePerQuestion(sessions[reqs[r].sessionId].answers))
         => LET sid == reqs[r].sessionId
                before == sessions[sid].answers
                after == sessions'[sid].answers
                q == reqs[r].answerData.questionId
            IN  /\ OneTuplePerQuestion(after)
                /\ \A i \in 1..Len(after) : SeqContains(sessions'[sid].questions, after[i].questionId)
                /\ \E i \in 1..Len(after) : after[i] = reqs[r].answerData
                /\ \A i \in 1..Len(before) :
                     before[i].questionId # q => (i <= Len(after) /\ after[i] = before[i])
                /\ AnsweredIds(after) = AnsweredIds(before) \cup {q}
                /\ lastResp'.status = 200
                /\ lastResp'.totalAnswered = Cardinality(AnsweredIds(after))
                /\ lastResp'.totalAnswered <= Len(sessions'[sid].questions)]_vars

C18_Witness ==
  /\ lastResp.op = "submitAnswer"
  /\ lastResp.status = 200
  /\ lastResp.totalAnswered = 1
  /\ nreq = 3
  /\ Len(sessions) = 1
  /\ Len(sessions[1].answers) = 1
  /\ sessions[1].answers[1].selectedOption = 1
  /\ sessions[1].answers[1].isCorrect
  /\ sessions[1].score = 1
  /\ users = [u \in Users |-> NewUser]
  /\ questionBank = NewQuestions

\* C19: for every IN_PROGRESS session, every question of it and every option,
\* the correctness that submitAnswer records for that option is the same
\* after every step as before it: a later edit of the question does not
\* change what is recorded for the session.
C19_CorrectnessSnapshotted ==
  [][\A sid \in SessionIds :
       sessions[sid].status = IN_PROGRESS
         => \A k \in 1..Len(sessions[sid].questions), opt \in SelectedOptions :
              LET q == sessions[sid].questions[k]
              IN  (opt = questionBank'[q].correct) = IsCorrectOption(q, opt)]_vars

MarkingFields == {"correct", "isCorrect", "score", "percentage", "levelAchieved",
                  "canProceedToNext"}

\* a record, and every record of a sequence, has none of the marking fields
HidesMarking(rec) == DOMAIN rec \cap MarkingFields = {}
AllHideMarking(seq) == \A k \in 1..Len(seq) : HidesMarking(seq[k])

\* C21: every successful response of startTest (new or resumed),
\* submitAnswer and getTestSession about a session that is IN_PROGRESS
\* carries nothing that depends on which options are marked correct: no
\* isCorrect of an answer or of a question's options, and no score,
\* percentage or level computed from them; so two runs that differ only in
\* the marking answer alike.
C21_ResponsesHideMarking ==
  [][(/\ lastResp'.op \in {"startTest", "submitAnswer", "getTestSession"}
      /\ lastResp'.status \in {200, 201}
      /\ sessions'[lastResp'.sessionId].status = IN_PROGRESS)
       => /\ HidesMarking(lastResp')
          /\ "data" \in DOMAIN lastResp'
               => (HidesMarking(lastResp'.data) /\ AllHideMarking(lastResp'.data.answers))
          /\ lastResp'.op = "getTestSession" => AllHideMarking(lastResp'.questions)]_vars

C23_NoLostUpdate ==
  [][\A r \in Slots :
       (/\ SubmitAnswerSave(r)
        /\ reqs[r].loaded # sessions[reqs[r].sessionId])
         => LET sid == reqs[r].sessionId
                before == sessions[sid].answers
                after == sessions'[sid].answers
                q == reqs[r].answerData.questionId
            IN  /\ Cardinality({i \in 1..Len(after) : after[i].questionId = q}) = 1
                /\ \E i \in 1..Len(after) : after[i] = reqs[r].answerData
                /\ \A i \in 1..Len(before) :
                     before[i].questionId # q => \E j \in 1..Len(after) : after[j] = before[i]
                /\ sessions'[sid].score = CountCorrect(after)]_vars

\* C24: completeTest's user update agrees with determineLevelAndProgression:
\* for a user eligible for the step, at every step and percentage, if the
\* levelAchieved stored on the session is not null the user's level after
\* the update equals it, and the levelAchieved and canProceedToNext of the
\* response equal the ones stored on the session.
C24_LevelRulesAgree ==
  (probe.fn = "completeTestUpdate" /\ canTakeTestStep(ProbeUser, probe.step))
    => /\ probe.sessionLevelAchieved # Null => probe.newLevel = probe.sessionLevelAchieved
       /\ probe.respLevelAchieved = probe.sessionLevelAchieved
       /\ probe.respCanProceedToNext = probe.sessionCanProceedToNext

\* C25: completeTest's user update for a step-2 or step-3 session with
\* percentage < 25, for a user eligible for the step, leaves the user's
\* level and canTakeTest as they were, so that the user can take the same
\* step again.
C25_LaterStageFailKeepsStanding ==
  (/\ probe.fn = "completeTestUpdate"
   /\ probe.step \in {2, 3}
   /\ probe.percentage < 25
   /\ canTakeTestStep(ProbeUser, probe.step))
    => /\ probe.newLevel = probe.currentLevel
       /\ probe.newCanTakeTest = probe.canTakeTest
       /\ canTakeTestStep(SeededUser(probe.newLevel, probe.newCanTakeTest), probe.step)

C25_Witness ==
  /\ probe.fn = "completeTestUpdate"
  /\ probe.step = 3
  /\ probe.percentage = 24
  /\ probe.currentLevel = "C1"
  /\ probe.canTakeTest
  /\ probe.newLevel = "C1"
  /\ probe.newCanTakeTest

ExactBand(correct, total) ==
  IF 100 * correct < 25 * total THEN 0
  ELSE IF 100 * correct < 50 * total THEN 1
  ELSE IF 100 * correct < 75 * total THEN 2
  ELSE 3

\* C27: for every session with n questions, 1 <= n <= 20, and c correct
\* answers, 0 <= c <= n, the band of the integer percentage that the save
\* stores is the band of the exact value 100 * c / n, and the stored
\* levelAchieved and canProceedToNext of a session with answers are the
\* band table's entry for the exact band.
C27_RoundingKeepsBand ==
  probe.fn = "completeTestSave"
    => /\ Band(probe.percentage) = ExactBand(probe.correct, probe.total)
       /\ probe.answered > 0
            => <<probe.levelAchieved, probe.canProceedToNext>>
                 = BandTable[probe.step][ExactBand(probe.correct, probe.total) + 1]

C27_Witness ==
  /\ probe.fn = "completeTestSave"
  /\ probe.step = 1
  /\ probe.total = 19
  /\ probe.correct = 14
  /\ probe.percentage = 74
  /\ probe.levelAchieved = "A2"
  /\ ~probe.canProceedToNext

\* C28: every stored session with at least one answer has score = the number
\* of answers marked correct, percentage = round(100 * score / number of
\* questions) and levelAchieved, canProceedToNext = the band table's entry for
\* its step and percentage; a stored session without answers has score 0,
\* percentage 0, levelAchieved null and canProceedToNext false, whatever its
\* status and step.
C28_StoredScoreConsistent ==
  \A sid \in SessionIds :
    LET s == sessions[sid]
    IN  IF Len(s.answers) > 0
        THEN /\ s.score = CountCorrect(s.answers)
             /\ s.percentage = RoundPercentage(s.score, Len(s.questions))
             /\ <<s.levelAchieved, s.canProceedToNext>>
                  = BandTable[s.step][Band(s.percentage) + 1]
        ELSE /\ s.score = 0
             /\ s.percentage = 0
             /\ s.levelAchieved = Null
             /\ ~s.canProceedToNext

\* C29: a submitAnswer, completeTest or getTestSession issued by a user
\* against a session of another user is answered 404 and changes no session,
\* no user and no request in flight; a completeTest changes no user but the
\* one who issued it and no session but one of theirs; and the session that
\* startTest resumes belongs to the user who asked.
C29_OwnerIsolation ==
  [][/\ \A r \in Slots, u \in Users, sid \in SessionIds :
          \A q \in QuestionIdInputs(sid), opt \in SelectedOptions, ts \in TimeSpentVals :
            (SubmitAnswerFind(r, u, sid, q, opt, ts) /\ sessions[sid].userId # u)
              => /\ lastResp'.op = "submitAnswer" /\ lastResp'.status = 404
                 /\ sessions' = sessions /\ users' = users /\ reqs' = reqs
     /\ \A u \in Users, sid \in SessionIds :
          /\ (CompleteTest(u, sid) /\ sessions[sid].userId # u)
               => /\ lastResp'.op = "completeTest" /\ lastResp'.status = 404
                  /\ sessions' = sessions /\ users' = users
          /\ (GetTestSession(u, sid) /\ sessions[sid].userId # u)
               => /\ lastResp'.op = "getTestSession" /\ lastResp'.status = 404
                  /\ sessions' = sessions /\ users' = users
          /\ CompleteTest(u, sid)
               => /\ \A o \in Users \ {u} : users'[o] = users[o]
                  /\ \A i \in SessionIds :
                       sessions[i].userId # u => sessions'[i] = sessions[i]
     /\ (lastResp'.op = "startTest" /\ lastResp'.status = 200)
          => sessions[lastResp'.sessionId].userId = lastResp'.userId]_vars

C29_Witness ==
  /\ lastResp.op = "submitAnswer"
  /\ lastResp.status = 404
  /\ lastResp.userId = "u2"
  /\ lastResp.sessionId = 1
  /\ Len(sessions) = 1
  /\ sessions[1].userId = "u1"
  /\ sessions[1].status = IN_PROGRESS
  /\ Len(sessions[1].answers) = 1

\* the fields of the client session that a submitted session keeps
ClientFrozen(session) ==
  <<session.answers, session.currentQuestionIndex, session.timeRemaining,
    session.timeSpent>>

IsSubmitted(state) == state.currentSession # NoSession /\ state.currentSession.isSubmitted

\* C30: in the client's test slice a session becomes submitted only by
\* submitTest or by an updateTimer tick that brings timeRemaining to 0 or
\* below, and either leaves it inactive with the timer stopped; on a
\* submitted session selectAnswer, goToQuestion, nextQuestion,
\* previousQuestion, updateTimer and resumeTimer change neither answers,
\* currentQuestionIndex, timeRemaining nor timeSpent; and the session stays
\* submitted until clearTestSession, resetTestState or a startTestSession.
C30_SubmittedIsFinal ==
  [][/\ (~IsSubmitted(test) /\ IsSubmitted(test'))
          => /\ \/ submitTest
                \/ updateTimer /\ test'.currentSession.timeRemaining <= 0
             /\ ~test'.currentSession.isActive
             /\ ~test'.isTimerRunning
     /\ (/\ IsSubmitted(test)
         /\ \/ \E payload \in SelectedOptions : selectAnswer(payload)
            \/ \E payload \in ClientIndexInputs : goToQuestion(payload)
            \/ nextQuestion
            \/ previousQuestion
            \/ updateTimer
            \/ resumeTimer)
          => /\ IsSubmitted(test')
             /\ ClientFrozen(test'.currentSession) = ClientFrozen(test.currentSession)
     /\ (IsSubmitted(test) /\ ~IsSubmitted(test'))
          => \/ clearTestSession
             \/ resetTestState
             \/ \E sessionId \in Slots, questions \in ClientQuestionCounts,
                   timeLimit \in ClientTimeLimits :
                  startTestSession(sessionId, questions, 1, "A1", timeLimit)]_vars

C30_Witness ==
  /\ IsSubmitted(test)
  /\ test.isTimerRunning
  /\ test.currentSession.timeRemaining = 0
  /\ test.currentSession.timeSpent = MaxTimeLimit
  /\ test.currentSession.answers = <<1, 0 - 1>>
  /\ test.currentSession.currentQuestionIndex = 1

====
